---- MODULE Spec2Model ----
(***************************************************************************)
(* Model of paddlebench (main.py): a sequential batch driver that          *)
(* discovers .tif/.tiff files, enforces a GPU, constructs and warms up an  *)
(* OCR engine, OCRs every page of every file and prints a summary.         *)
(*                                                                         *)
(* Two specifications share the module:                                    *)
(*   Spec       run_batch, from the directory check to the summary;        *)
(*   SpecCount  parse_ocr_result_count applied to bounded Python values.   *)
(***************************************************************************)
EXTENDS Integers, Sequences, FiniteSets, TLC

(***************************************************************************)
(* Bounds of the model.                                                    *)
(***************************************************************************)
\* directory entries in the scanned directory
MaxDirEntries == 3
\* frames (pages) of one TIFF container
MaxFrames == 2
\* entries of a detection result handed to the counter in SpecCount
MaxEntries == 2
\* value of cuda.device_count()
MaxGpus == 1

(***************************************************************************)
(* Python values.  Every value is a record of the same four fields, so any *)
(* two values are comparable: t is the type, n the number of an int/float, *)
(* s the characters (code points) of a str, v the items of a list/tuple.   *)
(* Only the empty dict is modelled.                                        *)
(***************************************************************************)
PyNone == [t |-> "None", n |-> 0, s |-> <<>>, v |-> <<>>]
PyNum(k) == [t |-> "num", n |-> k, s |-> <<>>, v |-> <<>>]
PyStr(chars) == [t |-> "str", n |-> 0, s |-> chars, v |-> <<>>]
PyDict == [t |-> "dict", n |-> 0, s |-> <<>>, v |-> <<>>]
PyList(items) == [t |-> "list", n |-> 0, s |-> <<>>, v |-> items]
PyTuple(items) == [t |-> "tuple", n |-> 0, s |-> <<>>, v |-> items]

\* bool(x): None, 0, "", {}, [] and () are falsy
Truthy(x) ==
    CASE x.t = "None" -> FALSE
      [] x.t = "num" -> x.n # 0
      [] x.t = "str" -> Len(x.s) > 0
      [] x.t = "dict" -> FALSE
      [] OTHER -> Len(x.v) > 0

\* isinstance(x, list)
IsList(x) == x.t = "list"

\* isinstance(x, (list, tuple))
IsListOrTuple(x) == x.t \in {"list", "tuple"}

\* len(x) of a sized value
PyLen(x) == IF x.t = "str" THEN Len(x.s) ELSE Len(x.v)

\* x[0] raises TypeError on None and numbers (the empty dict is never indexed:
\* it is falsy)
Subscriptable(x) == x.t \in {"list", "tuple", "str"}

\* x[i], 0-based, for an index in range
PyItem(x, i) == IF x.t = "str" THEN PyStr(<<x.s[i + 1]>>) ELSE x.v[i + 1]

\* list(iter(x)): the items a for loop over x visits
PyIter(x) ==
    IF x.t = "str" THEN [i \in 1..Len(x.s) |-> PyStr(<<x.s[i]>>)] ELSE x.v

(***************************************************************************)
(* str(), repr() and str.strip()                                           *)
(***************************************************************************)
\* the decimal digits of a natural number, as code points
RECURSIVE Digits(_)
Digits(k) == IF k < 10 THEN <<48 + k>> ELSE Digits(k \div 10) \o <<48 + (k % 10)>>

NumStr(k) == IF k < 0 THEN <<45>> \o Digits(0 - k) ELSE Digits(k)

RECURSIVE PyRepr(_)
RECURSIVE JoinRepr(_, _)
\* ", ".join(repr(e) for e in items[i:])
JoinRepr(items, i) ==
    IF i > Len(items) THEN <<>>
    ELSE PyRepr(items[i])
         \o (IF i < Len(items) THEN <<44, 32>> ELSE <<>>)
         \o JoinRepr(items, i + 1)

PyRepr(x) ==
    CASE x.t = "None" -> <<78, 111, 110, 101>>
      [] x.t = "num" -> NumStr(x.n)
      [] x.t = "str" -> <<39>> \o x.s \o <<39>>
      [] x.t = "dict" -> <<123, 125>>
      [] x.t = "list" -> <<91>> \o JoinRepr(x.v, 1) \o <<93>>
      [] OTHER -> <<40>> \o JoinRepr(x.v, 1)
                  \o (IF Len(x.v) = 1 THEN <<44>> ELSE <<>>) \o <<41>>

\* str(x): a str is itself, anything else is its repr
PyStrOf(x) == IF x.t = "str" THEN x.s ELSE PyRepr(x)

\* the ASCII code points str.isspace() accepts
Whitespace == (9..13) \cup (28..32)

RECURSIVE LStrip(_)
LStrip(s) ==
    IF s # <<>> /\ Head(s) \in Whitespace THEN LStrip(Tail(s)) ELSE s

RECURSIVE RStrip(_)
RStrip(s) ==
    IF s # <<>> /\ s[Len(s)] \in Whitespace
    THEN RStrip(SubSeq(s, 1, Len(s) - 1)) ELSE s

\* s.strip()
Strip(s) == RStrip(LStrip(s))

(***************************************************************************)
(* parse_ocr_result_count                                                  *)
(***************************************************************************)
Returned(lines, boxes) == [raised |-> "", lines |-> lines, boxes |-> boxes]
Raised(exc) == [raised |-> exc, lines |-> 0, boxes |-> 0]

\* line 85: page_items = result[0] if isinstance(result[0], list) else result
PageItems(result) ==
    IF IsList(PyItem(result, 0)) THEN PyItem(result, 0) ELSE result

\* line 87: the entry is counted as a box
EntryIsBox(entry) == IsListOrTuple(entry) /\ PyLen(entry) >= 2

\* a guard that forgets the length check
MetaHasTextNoLen(meta) == IsListOrTuple(meta)

\* line 90: the metadata carries a text slot
MetaHasText(meta) == IsListOrTuple(meta) /\ PyLen(meta) >= 1

\* lines 87-92, one iteration of the loop: what the entry adds
EntryCount(entry) ==
    IF ~EntryIsBox(entry) THEN Returned(0, 0)
    ELSE LET meta == PyItem(entry, 1)
         IN  IF ~MetaHasText(meta) THEN Returned(0, 1)
             ELSE IF PyLen(meta) < 1 THEN Raised("IndexError")
             ELSE IF Len(Strip(PyStrOf(PyItem(meta, 0)))) > 0
                  THEN Returned(1, 1)
                  ELSE Returned(0, 1)

\* lines 86-93: the loop over page_items, from item i with the counts so far
RECURSIVE CountLoop(_, _, _, _)
CountLoop(items, i, lines, boxes) ==
    IF i > Len(items) THEN Returned(lines, boxes)
    ELSE LET c == EntryCount(items[i])
         IN  IF c.raised # "" THEN c
             ELSE CountLoop(items, i + 1, lines + c.lines, boxes + c.boxes)

parse_ocr_result_count(result) ==
    IF ~Truthy(result) THEN Returned(0, 0)
    ELSE IF ~Subscriptable(result) THEN Raised("TypeError")
    ELSE CountLoop(PyIter(PageItems(result)), 1, 0, 0)

(***************************************************************************)
(* File names, the two globs and the sort of run_batch (lines 124-127).    *)
(* A name is the sequence of its code points.                              *)
(***************************************************************************)
\* the names a directory may hold: "a.tif", "A.tif", "b.tiff", "c.TIF"
NameUniverse ==
    { <<97, 46, 116, 105, 102>>,
      <<65, 46, 116, 105, 102>>,
      <<98, 46, 116, 105, 102, 102>>,
      <<99, 46, 84, 73, 70>> }

\* the directories of the model: at most MaxDirEntries of these names
Directories == { S \in SUBSET NameUniverse : Cardinality(S) <= MaxDirEntries }

\* ".tif" and ".tiff", the suffixes the patterns "*.tif" and "*.tiff" require
SuffixTif == <<46, 116, 105, 102>>
SuffixTiff == <<46, 116, 105, 102, 102>>

\* str.lower() on one ASCII code point
LowerChar(c) == IF c \in 65..90 THEN c + 32 ELSE c

\* p.name.lower()
LowerName(name) == [k \in 1..Len(name) |-> LowerChar(name[k])]

\* a < b on Python strings: lexicographic by code point
RECURSIVE StrLess(_, _)
StrLess(a, b) ==
    IF b = <<>> THEN FALSE
    ELSE IF a = <<>> THEN TRUE
    ELSE IF Head(a) # Head(b) THEN Head(a) < Head(b)
    ELSE StrLess(Tail(a), Tail(b))

\* the sort key of line 126
SortKey(name) == LowerName(name)

\* whether the pattern "*<suffix>" matches the name, case-sensitively
GlobMatches(name, suffix) ==
    /\ Len(name) >= Len(suffix)
    /\ SubSeq(name, Len(name) - Len(suffix) + 1, Len(name)) = suffix

\* directory.glob("*<suffix>") over one enumeration of the directory
Glob(listing, suffix) == SelectSeq(listing, LAMBDA nm : GlobMatches(nm, suffix))

\* insert x into a sorted sequence behind every element whose key is not greater
RECURSIVE InsertSorted(_, _)
InsertSorted(x, s) ==
    IF s = <<>> THEN <<x>>
    ELSE IF StrLess(SortKey(x), SortKey(Head(s))) THEN <<x>> \o s
    ELSE <<Head(s)>> \o InsertSorted(x, Tail(s))

\* sorted(seq, key=...): a stable sort, equal keys keep their input order
RECURSIVE SortedByKey(_)
SortedByKey(seq) ==
    IF seq = <<>> THEN <<>>
    ELSE InsertSorted(seq[Len(seq)], SortedByKey(SubSeq(seq, 1, Len(seq) - 1)))

\* lines 124-127
DiscoverFiles(enumTif, enumTiff) ==
    SortedByKey(Glob(enumTif, SuffixTif) \o Glob(enumTiff, SuffixTiff))

\* every order in which a scan may enumerate the entries of a directory
Enumerations(S) ==
    { e \in [1..Cardinality(S) -> S] : \A x \in S : \E k \in DOMAIN e : e[k] = x }

(***************************************************************************)
(* Exceptions and process exit.                                            *)
(***************************************************************************)
Exc(type, text) == [type |-> type, text |-> text]
NoExc == Exc("", "")

\* classes that derive from BaseException but not from Exception
BaseOnly == {"SystemExit", "KeyboardInterrupt", "GeneratorExit"}

\* a handler that only catches OSError and its subclasses
CaughtOnlyOSError(e) == e.type \in {"OSError", "UnidentifiedImageError"}

\* a bare except
CaughtByBareExcept(e) == TRUE

\* "except Exception" (lines 24, 31, 158)
CaughtByExceptException(e) == e.type \notin BaseOnly

\* what the process leaves on stderr: nothing, the one line of sys.exit(str),
\* or the traceback of an exception nobody caught
NoStderr == [lines |-> 0, head |-> "", rest |-> ""]
ExitLine(text) == [lines |-> 1, head |-> "ERROR:", rest |-> text]
Traceback(e) ==
    [lines |-> 3, head |-> "Traceback (most recent call last):", rest |-> e.type]

\* line 161: msg = f"{type(e).__name__}: {e}"
ErrorMessage(e) == <<e.type, e.text>>

(***************************************************************************)
(* State.                                                                  *)
(***************************************************************************)
VARIABLES
    pc,           \* where run_batch stands
    how,          \* how the process ended: "", "returned", "sys_exit", "uncaught"
    exitCode,     \* the exit status, once pc = "done"
    stderr,       \* what the process left on the error stream
    out,          \* the lines printed on standard output
    isDir,        \* directory.is_dir()
    files,        \* line 124
    i,            \* line 149: files handled or in hand
    ok, failed, total_pages, total_lines, errors,   \* lines 140-144
    pages, lines, \* the locals pages and total_lines of ocr_tiff_file
    exc,          \* the exception travelling to the handler of line 158
    frameLog,     \* per frame of the file in hand: bounding box, engine calls, lines
    atStart,      \* the statistics as they stood when the file in hand began
    lastStatus,   \* "OK" or "FAIL" of the file handled last, "" before
    phases,       \* the phases entered so far, in order
    gpuChecks, engines, warmups,   \* calls of assert_gpu_available, PaddleOCR(), warmup
    fault,        \* the precondition or initialisation failure the run met, "" if none
    cpc, arg, cret   \* SpecCount: position, argument and outcome of the counter

batchVars ==
    <<pc, how, exitCode, stderr, out, isDir, files, i, ok, failed,
      total_pages, total_lines, errors, pages, lines, exc, frameLog, atStart,
      lastStatus, phases, gpuChecks, engines, warmups, fault>>
countVars == <<cpc, arg, cret>>
vars == <<batchVars, countVars>>

statVars == <<ok, failed, total_pages, total_lines, errors>>
fileVars == <<pages, lines, exc, frameLog, atStart, lastStatus>>
envVars == <<isDir>>
callVars == <<gpuChecks, engines, warmups>>

\* the statistics of lines 140-144 as one record
Stats == [ok |-> ok, failed |-> failed, total_pages |-> total_pages,
          total_lines |-> total_lines, errors |-> errors]

\* one printed line; the fields a line does not use stay empty
Line(kind, idx, name, p, l, msg) ==
    [kind |-> kind, idx |-> idx, name |-> name, pages |-> p, lines |-> l, msg |-> msg]

(***************************************************************************)
(* Process exit.                                                           *)
(***************************************************************************)
\* sys.exit(<str>): the string goes to stderr, the status is 1
SysExit(text) ==
    /\ pc' = "done"
    /\ how' = "sys_exit"
    /\ exitCode' = 1
    /\ stderr' = ExitLine(text)

\* an exception nobody catches: traceback on stderr, status 1
Uncaught(e) ==
    /\ pc' = "done"
    /\ how' = "uncaught"
    /\ exitCode' = 1
    /\ stderr' = Traceback(e)

\* run_batch returns, main returns: status 0
ReturnFromMain ==
    /\ pc' = "done"
    /\ how' = "returned"
    /\ exitCode' = 0
    /\ stderr' = stderr

Enter(phase) == phases' = Append(phases, phase)

(***************************************************************************)
(* Discovering: lines 121-130.                                             *)
(***************************************************************************)
\* after discovery the GPU is enforced whether or not there is a file
NextAfterDiscoveryNoReturn(found) == "assert_gpu"

\* after discovery the engine is built at once
NextAfterDiscoveryNoGpu(found) == IF found = <<>> THEN "return" ELSE "construct"

\* lines 128-133: return on an empty list, else go on to the GPU check
NextAfterDiscovery(found) == IF found = <<>> THEN "return" ELSE "assert_gpu"

Discover ==
    /\ pc = "discover"
    /\ \/ /\ ~isDir
          /\ fault' = "not_a_directory"
          /\ SysExit("Not a directory")
          /\ UNCHANGED <<out, files, phases>>
       \/ /\ isDir
          /\ UNCHANGED fault
          /\ \E dir \in Directories :
             \E enumTif \in Enumerations(dir), enumTiff \in Enumerations(dir) :
                LET found == DiscoverFiles(enumTif, enumTiff)
                    next == NextAfterDiscovery(found)
                IN  /\ files' = found
                    /\ IF next = "return"
                       THEN /\ out' = Append(out, Line("no_files", 0, <<>>, 0, 0, <<>>))
                            /\ ReturnFromMain
                            /\ UNCHANGED phases
                       ELSE /\ pc' = next
                            /\ Enter(IF next = "assert_gpu"
                                     THEN "PreconditionCheck" ELSE "Initializing")
                            /\ UNCHANGED <<out, how, exitCode, stderr>>
    /\ UNCHANGED <<envVars, i, statVars, fileVars, callVars, countVars>>

(***************************************************************************)
(* PreconditionCheck: assert_gpu_available, lines 19-33.                   *)
(***************************************************************************)
\* what the try block of lines 26-30 raises: the import may fail, the module
\* may lack device_count, the call may raise, or it returns a count
CountOutcomes == {"ImportError", "no_attr", "RuntimeError"} \cup {"count"}

\* lines 26-33: the exception that leaves the best-effort device count check
DeviceCountCheck(outcome, count) ==
    LET raisedInTry ==
            CASE outcome = "ImportError" -> Exc("ImportError", "paddle.device.cuda")
              [] outcome = "RuntimeError" -> Exc("RuntimeError", "device_count")
              [] outcome = "count" /\ count < 1 ->
                     Exc("SystemExit", "No CUDA GPUs detected.")
              [] OTHER -> NoExc
    IN  IF raisedInTry # NoExc /\ ~CaughtByExceptException(raisedInTry)
        THEN raisedInTry ELSE NoExc

AssertGpuAvailable ==
    /\ pc = "assert_gpu"
    /\ gpuChecks' = gpuChecks + 1
    /\ \E compiled \in BOOLEAN, setDeviceRaises \in BOOLEAN,
          outcome \in CountOutcomes, count \in 0..MaxGpus :
          \/ /\ ~compiled
             /\ fault' = "not_compiled"
             /\ SysExit("PaddlePaddle is not compiled with CUDA. Install the GPU build.")
             /\ UNCHANGED phases
          \/ /\ compiled /\ setDeviceRaises
             /\ fault' = "set_device"
             /\ IF CaughtByExceptException(Exc("RuntimeError", "set_device"))
                THEN SysExit("Failed to set device to GPU")
                ELSE Uncaught(Exc("RuntimeError", "set_device"))
             /\ UNCHANGED phases
          \/ /\ compiled /\ ~setDeviceRaises
             /\ DeviceCountCheck(outcome, count) # NoExc
             /\ fault' = "no_gpu"
             /\ SysExit(DeviceCountCheck(outcome, count).text)
             /\ UNCHANGED phases
          \/ /\ compiled /\ ~setDeviceRaises
             /\ DeviceCountCheck(outcome, count) = NoExc
             /\ fault' = IF outcome = "count" /\ count < 1 THEN "no_gpu" ELSE ""
             /\ pc' = "construct"
             /\ Enter("Initializing")
             /\ UNCHANGED <<how, exitCode, stderr>>
    /\ UNCHANGED <<out, envVars, files, i, statVars, fileVars, engines, warmups,
                   countVars>>

(***************************************************************************)
(* Initializing: lines 136-137, then lines 139-147.                        *)
(***************************************************************************)
\* line 136: ocr = PaddleOCR(lang="en"); nothing catches what it raises
ConstructEngine ==
    /\ pc = "construct"
    /\ \/ /\ fault' = "construct"
          /\ Uncaught(Exc("RuntimeError", "PaddleOCR"))
          /\ UNCHANGED engines
       \/ /\ engines' = engines + 1
          /\ pc' = "warmup"
          /\ UNCHANGED <<how, exitCode, stderr, fault>>
    /\ UNCHANGED <<out, envVars, files, i, statVars, fileVars, phases, gpuChecks,
                   warmups, countVars>>

\* line 137 and lines 70-74: one predict on a blank image; nothing catches
\* what it raises.  Lines 139-147 follow: the counters and the header line.
Warmup ==
    /\ pc = "warmup"
    /\ warmups' = warmups + 1
    /\ \/ /\ fault' = "warmup"
          /\ Uncaught(Exc("RuntimeError", "predict"))
          /\ UNCHANGED <<out, phases, i, statVars>>
       \/ /\ ok' = 0 /\ failed' = 0 /\ total_pages' = 0 /\ total_lines' = 0
          /\ errors' = <<>>
          /\ i' = 0
          /\ out' = Append(out, Line("header", Len(files), <<>>, 0, 0, <<>>))
          /\ pc' = "loop"
          /\ Enter("Running")
          /\ UNCHANGED <<how, exitCode, stderr, fault>>
    /\ UNCHANGED <<envVars, files, fileVars, gpuChecks, engines, countVars>>

(***************************************************************************)
(* Running: the loop of lines 149-163 around ocr_tiff_file, lines 95-114.  *)
(***************************************************************************)
\* one well-formed detection [box, (text, score)]: the box is four points
Box ==
    PyList(<< PyList(<<PyNum(0), PyNum(0)>>), PyList(<<PyNum(1), PyNum(0)>>),
              PyList(<<PyNum(1), PyNum(1)>>), PyList(<<PyNum(0), PyNum(1)>>) >>)
Detection(text) == PyList(<<Box, PyTuple(<<PyStr(text), PyNum(1)>>)>>)

\* one page of detections in its wrapper list
Page(detections) == PyList(<<PyList(detections)>>)

\* what ocr.predict returns for a page of a batch run: None, a scalar the
\* counter cannot index, or a page with no detection, with the text "a", with
\* the blank text " ", or with both
FrameResults ==
    { PyNone, PyNum(1),
      Page(<<>>),
      Page(<<Detection(<<97>>)>>),
      Page(<<Detection(<<32>>)>>),
      Page(<<Detection(<<97>>), Detection(<<32>>)>>) }

\* what frame.getbbox() does: returns None, returns a box, or raises
BBoxOutcomes == {"None", "box", "raises"}

\* a frame whose bounding box query raised is skipped too
FrameIsSkippedFailClosed(bbox) == bbox \in {"None", "raises"}

\* lines 105-109: the frame is skipped only when getbbox() returned None
FrameIsSkipped(bbox) == bbox = "None"

\* lines 154-156 and the status the line 157 prints
TryBodyForgetsOk(s, p, l) ==
    [s EXCEPT !.total_pages = @ + p, !.total_lines = @ + l]

TryBody(s, p, l) ==
    [s EXCEPT !.ok = @ + 1, !.total_pages = @ + p, !.total_lines = @ + l]

\* the handler also counts the file as processed
ExceptBodyCountsOk(s, name, e) ==
    [s EXCEPT !.ok = @ + 1, !.failed = @ + 1,
              !.errors = Append(@, <<name, ErrorMessage(e)>>)]

\* lines 160-162
ExceptBody(s, name, e) ==
    [s EXCEPT !.failed = @ + 1, !.errors = Append(@, <<name, ErrorMessage(e)>>)]

SetStats(s) ==
    /\ ok' = s.ok
    /\ failed' = s.failed
    /\ total_pages' = s.total_pages
    /\ total_lines' = s.total_lines
    /\ errors' = s.errors

FrameEntry(bbox, calls, l) == [bbox |-> bbox, calls |-> calls, lines |-> l]

\* lines 149-152 and 99-101: the next file is taken and its container opened
BeginFile ==
    /\ pc = "loop"
    /\ i < Len(files)
    /\ i' = i + 1
    /\ atStart' = Stats
    /\ pages' = 0
    /\ lines' = 0
    /\ frameLog' = <<>>
    /\ \/ /\ exc' = Exc("UnidentifiedImageError", "cannot identify image file")
          /\ pc' = "raised"
       \/ /\ exc' = NoExc
          /\ pc' = "frames"
    /\ UNCHANGED <<how, exitCode, stderr, out, envVars, files, statVars, lastStatus,
                   phases, callVars, fault, countVars>>

\* the iterator fails to reach the next frame
SeekFails ==
    /\ pc = "frames"
    /\ pages < MaxFrames
    /\ exc' = Exc("OSError", "broken data stream")
    /\ pc' = "raised"
    /\ UNCHANGED <<how, exitCode, stderr, out, envVars, files, i, statVars, pages,
                   lines, frameLog, atStart, lastStatus, phases, callVars, fault,
                   countVars>>

\* lines 102-113, one iteration: the frame is counted, then skipped or
\* normalised, recognised and its lines counted
ProcessFrame ==
    /\ pc = "frames"
    /\ pages < MaxFrames
    /\ pages' = pages + 1
    /\ \E bbox \in BBoxOutcomes :
          \/ /\ FrameIsSkipped(bbox)
             /\ frameLog' = Append(frameLog, FrameEntry(bbox, 0, 0))
             /\ UNCHANGED <<pc, exc, lines>>
          \/ /\ ~FrameIsSkipped(bbox)
             /\ frameLog' = Append(frameLog, FrameEntry(bbox, 0, 0))
             /\ exc' = Exc("ValueError", "_preprocess_for_ocr")
             /\ pc' = "raised"
             /\ UNCHANGED lines
          \/ /\ ~FrameIsSkipped(bbox)
             /\ frameLog' = Append(frameLog, FrameEntry(bbox, 1, 0))
             /\ exc' = Exc("RuntimeError", "predict")
             /\ pc' = "raised"
             /\ UNCHANGED lines
          \/ /\ ~FrameIsSkipped(bbox)
             /\ \E result \in FrameResults :
                   LET counted == parse_ocr_result_count(result)
                   IN  IF counted.raised # ""
                       THEN /\ frameLog' = Append(frameLog, FrameEntry(bbox, 1, 0))
                            /\ exc' = Exc(counted.raised, "parse_ocr_result_count")
                            /\ pc' = "raised"
                            /\ UNCHANGED lines
                       ELSE /\ frameLog' =
                                   Append(frameLog, FrameEntry(bbox, 1, counted.lines))
                            /\ lines' = lines + counted.lines
                            /\ UNCHANGED <<pc, exc>>
    /\ UNCHANGED <<how, exitCode, stderr, out, envVars, files, i, statVars, atStart,
                   lastStatus, phases, callVars, fault, countVars>>

\* line 114 and lines 153-157: the file returns its counts and is recorded
FileOk ==
    /\ pc = "frames"
    /\ SetStats(TryBody(Stats, pages, lines))
    /\ out' = Append(out, Line("OK", i, files[i], pages, lines, <<>>))
    /\ lastStatus' = "OK"
    /\ pc' = "loop"
    /\ UNCHANGED <<how, exitCode, stderr, envVars, files, i, pages, lines, exc,
                   frameLog, atStart, phases, callVars, fault, countVars>>

\* lines 158-163: the handler of the loop, or no handler at all
FileFails ==
    /\ pc = "raised"
    /\ IF CaughtByExceptException(exc)
       THEN /\ SetStats(ExceptBody(Stats, files[i], exc))
            /\ out' = Append(out, Line("FAIL", i, files[i], 0, 0, ErrorMessage(exc)))
            /\ lastStatus' = "FAIL"
            /\ pc' = "loop"
            /\ UNCHANGED <<how, exitCode, stderr>>
       ELSE /\ Uncaught(exc)
            /\ UNCHANGED <<statVars, out, lastStatus>>
    /\ UNCHANGED <<envVars, files, i, pages, lines, exc, frameLog, atStart, phases,
                   callVars, fault, countVars>>

(***************************************************************************)
(* Summarizing: lines 165-179.                                             *)
(***************************************************************************)
LoopEnds ==
    /\ pc = "loop"
    /\ i = Len(files)
    /\ pc' = "summary"
    /\ Enter("Summarizing")
    /\ pages' = 0 /\ lines' = 0 /\ exc' = NoExc /\ frameLog' = <<>>
    /\ UNCHANGED <<how, exitCode, stderr, out, envVars, files, i, statVars, atStart,
                   lastStatus, callVars, fault, countVars>>

\* the summary block: the counts, then one line per recorded error
SummaryLines ==
    << Line("Discovered", Len(files), <<>>, 0, 0, <<>>),
       Line("Processed OK", ok, <<>>, 0, 0, <<>>),
       Line("Failed", failed, <<>>, 0, 0, <<>>),
       Line("Pages (total)", total_pages, <<>>, 0, 0, <<>>),
       Line("Lines (total)", total_lines, <<>>, 0, 0, <<>>) >>
    \o [k \in 1..Len(errors) |-> Line("error", k, errors[k][1], 0, 0, errors[k][2])]

Summarize ==
    /\ pc = "summary"
    /\ out' = out \o SummaryLines
    /\ ReturnFromMain
    /\ Enter("Done")
    /\ UNCHANGED <<envVars, files, i, statVars, fileVars, callVars, fault, countVars>>

(***************************************************************************)
(* The specification of run_batch.                                         *)
(***************************************************************************)
CountIdle ==
    /\ cpc = "idle"
    /\ arg = PyNone
    /\ cret = Returned(0, 0)

\* nothing has run yet
BatchFresh ==
    /\ how = ""
    /\ exitCode = 0
    /\ stderr = NoStderr
    /\ out = <<>>
    /\ files = <<>>
    /\ i = 0
    /\ ok = 0 /\ failed = 0 /\ total_pages = 0 /\ total_lines = 0
    /\ errors = <<>>
    /\ pages = 0 /\ lines = 0
    /\ exc = NoExc
    /\ frameLog = <<>>
    /\ atStart = [ok |-> 0, failed |-> 0, total_pages |-> 0, total_lines |-> 0,
                  errors |-> <<>>]
    /\ lastStatus = ""
    /\ phases = <<"Discovering">>
    /\ gpuChecks = 0 /\ engines = 0 /\ warmups = 0
    /\ fault = ""

Init ==
    /\ pc = "discover"
    /\ BatchFresh
    /\ isDir \in BOOLEAN
    /\ CountIdle

Next ==
    \/ Discover
    \/ AssertGpuAvailable
    \/ ConstructEngine
    \/ Warmup
    \/ BeginFile
    \/ SeekFails
    \/ ProcessFrame
    \/ FileOk
    \/ FileFails
    \/ LoopEnds
    \/ Summarize

Spec == Init /\ [][Next]_vars

(***************************************************************************)
(* The specification of parse_ocr_result_count on its own: the argument is *)
(* drawn from bounded Python values and the function is applied to it.     *)
(***************************************************************************)
\* the recognised texts: "", "\t\n" and " a "
CountTexts == { <<>>, <<9, 10>>, <<32, 97, 32>> }

\* (text, score) as a tuple and as a list
Metas ==
    { PyTuple(<<PyStr(t), PyNum(1)>>) : t \in CountTexts }
    \cup { PyList(<<PyStr(t), PyNum(1)>>) : t \in CountTexts }

\* a detection (box, (text, score)), as a list and as a tuple
Detections ==
    { PyList(<<Box, m>>) : m \in Metas } \cup { PyTuple(<<Box, m>>) : m \in Metas }

\* entries of other shapes
OtherEntries ==
    { PyNone, PyNum(7), PyStr(<<97, 98>>), PyDict,
      PyTuple(<<Box>>),
      PyList(<<Box, PyNone>>),
      PyTuple(<<Box, PyStr(<<97>>)>>),
      PyList(<<Box, PyTuple(<<>>)>>),
      PyList(<<Box, PyList(<<PyStr(<<97>>)>>)>>),
      PyList(<<Box, PyTuple(<<PyNone, PyNum(1)>>)>>),
      PyList(<<Box, PyTuple(<<PyStr(<<97>>), PyNum(1)>>), PyNum(3)>>) }

CountEntries == Detections \cup OtherEntries

EntryLists == UNION { [1..m -> CountEntries] : m \in 0..MaxEntries }

\* None, scalars, and lists of up to MaxEntries entries, bare and wrapped
CountInputs ==
    { PyNone, PyNum(1), PyDict, PyStr(<<97, 98>>) }
    \cup { PyList(es) : es \in EntryLists }
    \cup { PyList(<<PyList(es)>>) : es \in EntryLists }

BatchIdle ==
    /\ pc = "idle"
    /\ BatchFresh
    /\ isDir = FALSE

CountInit ==
    /\ BatchIdle
    /\ cpc = "call"
    /\ arg \in CountInputs
    /\ cret = Returned(0, 0)

CountCall ==
    /\ cpc = "call"
    /\ cret' = parse_ocr_result_count(arg)
    /\ cpc' = "returned"
    /\ UNCHANGED <<arg, batchVars>>

CountNext == CountCall

SpecCount == CountInit /\ [][CountNext]_vars

(***************************************************************************)
(* Properties of parse_ocr_result_count (SpecCount).                       *)
(***************************************************************************)
\* an entry of the form (region, (text, confidence)), as list or tuple
IsDetection(e) ==
    /\ e.t \in {"list", "tuple"}
    /\ Len(e.v) = 2
    /\ e.v[1] = Box
    /\ e.v[2].t \in {"list", "tuple"}
    /\ Len(e.v[2].v) = 2
    /\ e.v[2].v[1].t = "str"
    /\ e.v[2].v[2].t = "num"

\* text that is empty or consists of whitespace only
IsBlankText(chars) == \A k \in 1..Len(chars) : chars[k] \in Whitespace

\* the entries of a detection result in one of the two accepted shapes, as a
\* one-element set; the empty set for any other value
DetectionEntries(r) ==
    IF r.t = "list" /\ \A k \in 1..Len(r.v) : IsDetection(r.v[k])
    THEN {r.v}
    ELSE IF /\ r.t = "list" /\ Len(r.v) = 1 /\ r.v[1].t = "list"
            /\ \A k \in 1..Len(r.v[1].v) : IsDetection(r.v[1].v[k])
         THEN {r.v[1].v}
         ELSE {}

BlankCount(es) == Cardinality({k \in 1..Len(es) : IsBlankText(es[k].v[2].v[1].s)})

\* C3: for a detection result of N entries (region, (text, confidence)), K of
\* them with empty or whitespace-only text, wrapped in a single-page list or
\* bare, entries being lists or tuples, the counter returns (N - K, N); for
\* None and for the empty list it returns (0, 0).
C3_CountsDetections ==
    cpc = "returned" =>
        /\ arg \in {PyNone, PyList(<<>>)} => cret = Returned(0, 0)
        /\ \A es \in DetectionEntries(arg) :
              cret = Returned(Len(es) - BlankCount(es), Len(es))

\* the items the loop of line 86 visits for a list argument
VisitedItems(r) ==
    IF r.v # <<>> /\ r.v[1].t = "list" THEN r.v[1].v ELSE r.v

\* an entry with a region and an associated (text, confidence) pair
HasRegionAndMetaPair(e) ==
    /\ e.t \in {"list", "tuple"}
    /\ Len(e.v) >= 2
    /\ e.v[2].t \in {"list", "tuple"}
    /\ Len(e.v[2].v) = 2

\* an entry with at least two elements, whatever they are
HasTwoElements(e) == e.t \in {"list", "tuple"} /\ Len(e.v) >= 2

\* an entry whose second element is a non-empty list or tuple whose first
\* element prints as something other than whitespace
HasPrintableText(e) ==
    /\ HasTwoElements(e)
    /\ e.v[2].t \in {"list", "tuple"}
    /\ Len(e.v[2].v) >= 1
    /\ ~IsBlankText(PyStrOf(e.v[2].v[1]))

InCountDomain(r) == r.t \in {"None", "list"}

\* C8 as stated: on None, the empty list and any list of arbitrary entries,
\* wrapped or not, the counter never raises and returns two integers, and an
\* entry without a region and an associated (text, confidence) pair adds to
\* neither the box count nor the line count.
C8_SkipsEntriesWithoutMetaPair ==
    (cpc = "returned" /\ InCountDomain(arg)) =>
        /\ cret.raised = ""
        /\ cret.lines \in Nat /\ cret.boxes \in Nat
        /\ LET items == VisitedItems(arg)
           IN  /\ cret.boxes =
                     Cardinality({k \in 1..Len(items) : HasRegionAndMetaPair(items[k])})
               /\ cret.lines <= cret.boxes

\* C8 as amended: on such input the counter never raises and returns two
\* naturals; an entry that is not a list or tuple of at least two elements
\* adds to neither count, every entry of at least two elements adds to the
\* box count whatever its second element is, and it adds to the line count
\* exactly when that second element is a non-empty list or tuple whose first
\* element prints as non-blank text.
C8_NeverRaisesSkipsShortEntries ==
    (cpc = "returned" /\ InCountDomain(arg)) =>
        /\ cret.raised = ""
        /\ cret.lines \in Nat /\ cret.boxes \in Nat
        /\ LET items == VisitedItems(arg)
           IN  /\ cret.boxes =
                     Cardinality({k \in 1..Len(items) : HasTwoElements(items[k])})
               /\ cret.lines =
                     Cardinality({k \in 1..Len(items) : HasPrintableText(items[k])})

\* the counter has returned for a list that mixes a detection, an entry too
\* short to count and an entry whose second element is no metadata pair
C8_Witness ==
    /\ cpc = "returned"
    /\ arg.t = "list"
    /\ Len(arg.v) >= 2
    /\ \E k \in 1..Len(arg.v) : ~HasTwoElements(arg.v[k])
    /\ \E k \in 1..Len(arg.v) :
          HasTwoElements(arg.v[k]) /\ ~HasRegionAndMetaPair(arg.v[k])
    /\ cret.raised = ""
    /\ cret.boxes = 1

(***************************************************************************)
(* Properties of run_batch (Spec).                                         *)
(***************************************************************************)
\* the progress lines printed so far, one per file handled
ProgressLines == SelectSeq(out, LAMBDA ln : ln.kind \in {"OK", "FAIL"})

\* the FAIL lines among them
FailLines == SelectSeq(out, LAMBDA ln : ln.kind = "FAIL")

\* the summary block has been printed
SummaryPrinted == \E k \in 1..Len(out) : out[k].kind = "Discovered"

ReachedRunning == \E k \in 1..Len(phases) : phases[k] = "Running"

InFile == pc \in {"frames", "raised"}

\* C1: a failure inside ocr_tiff_file never aborts the batch: every
\* discovered file is attempted exactly once and in order, each failing file
\* leaves one (filename, message) entry and one FAIL progress line, the
\* exception reaches the handler of the loop, and a run that entered the loop
\* can only end by printing the summary and exiting with status 0.
C1_FailureNeverAbortsBatch ==
    ReachedRunning =>
        /\ Len(ProgressLines) = (IF InFile THEN i - 1 ELSE i)
        /\ \A k \in 1..Len(ProgressLines) :
              ProgressLines[k].idx = k /\ ProgressLines[k].name = files[k]
        /\ errors = [k \in 1..Len(FailLines) |-> <<FailLines[k].name, FailLines[k].msg>>]
        /\ failed = Len(FailLines)
        /\ pc = "raised" => (exc # NoExc /\ exc.type \notin BaseOnly)
        /\ pc = "done" =>
              /\ how = "returned" /\ exitCode = 0
              /\ Len(ProgressLines) = Len(files)
              /\ SummaryPrinted

\* a finished run in which a file failed and the next file was processed
C1_Witness ==
    /\ pc = "done"
    /\ how = "returned"
    /\ exitCode = 0
    /\ \E k \in 1..(Len(ProgressLines) - 1) :
          ProgressLines[k].kind = "FAIL" /\ ProgressLines[k + 1].kind = "OK"

NothingProcessed ==
    /\ i = 0
    /\ ProgressLines = <<>>
    /\ ~SummaryPrinted

C4_NoFilesSkipsGpu ==
    (isDir /\ files = <<>> /\ pc # "discover") =>
        /\ pc = "done"
        /\ how = "returned" /\ exitCode = 0
        /\ stderr = NoStderr
        /\ \E k \in 1..Len(out) : out[k].kind = "no_files"
        /\ gpuChecks = 0 /\ engines = 0 /\ warmups = 0
        /\ fault = ""

\* the run over a directory without a matching file has ended
C4_Witness ==
    /\ isDir
    /\ files = <<>>
    /\ pc = "done"
    /\ how = "returned"
    /\ Len(out) = 1

\* the names discovered, as a set
FileSet == {files[k] : k \in 1..Len(files)}

\* C5: the processing order is ascending by lowercased file name and depends
\* only on the set of names discovered, not on the order in which the two
\* globs enumerate them, also when two names differ only in letter case.
C5_OrderDependsOnlyOnNames ==
    (isDir /\ pc # "discover") =>
        /\ \A k \in 1..(Len(files) - 1) :
              ~StrLess(LowerName(files[k + 1]), LowerName(files[k]))
        /\ \A enumTif \in Enumerations(FileSet), enumTiff \in Enumerations(FileSet) :
              DiscoverFiles(enumTif, enumTiff) = files

RECURSIVE SumLines(_)
SumLines(log) ==
    IF log = <<>> THEN 0 ELSE log[1].lines + SumLines(Tail(log))

\* C6: when ocr_tiff_file completes, the page count it returns is the number
\* of frames, the engine was called once for each frame whose bounding box
\* query returned a box or raised and never for a frame whose query returned
\* None, and the frames skipped add no line to the line total it returns.
C6_EveryFrameCountedBlankSkipped ==
    /\ InFile => pages = Len(frameLog)
    /\ (pc = "loop" /\ lastStatus = "OK") =>
          LET ln == out[Len(out)]
          IN  /\ ln.kind = "OK"
              /\ ln.pages = Len(frameLog)
              /\ \A k \in 1..Len(frameLog) :
                    /\ frameLog[k].bbox = "None" =>
                          (frameLog[k].calls = 0 /\ frameLog[k].lines = 0)
                    /\ frameLog[k].bbox \in {"box", "raises"} => frameLog[k].calls = 1
              /\ ln.lines = SumLines(frameLog)

\* a file completed with a blank frame and a frame whose query raised
C6_Witness ==
    /\ pc = "loop"
    /\ lastStatus = "OK"
    /\ \E k \in 1..Len(frameLog) : frameLog[k].bbox = "None"
    /\ \E k \in 1..Len(frameLog) : frameLog[k].bbox = "raises" /\ frameLog[k].lines > 0
    /\ out[Len(out)].pages = 2

\* C7: a file that fails, at whatever page, leaves ok, total_pages and
\* total_lines as they stood when the file began; failed grows by one and one
\* error entry is appended.
C7_FailedFileLeavesTotals ==
    /\ InFile => Stats = atStart
    /\ (pc = "loop" /\ lastStatus = "FAIL") =>
          /\ ok = atStart.ok
          /\ total_pages = atStart.total_pages
          /\ total_lines = atStart.total_lines
          /\ failed = atStart.failed + 1
          /\ errors = Append(atStart.errors, <<files[i], ErrorMessage(exc)>>)

\* a file failed at its second page after its first page had been recognised
\* with a line, in a batch that already had pages and lines to its name
C7_Witness ==
    /\ pc = "loop"
    /\ lastStatus = "FAIL"
    /\ Len(frameLog) = 2
    /\ frameLog[1].calls = 1 /\ frameLog[1].lines > 0
    /\ atStart.total_pages > 0
    /\ atStart.total_lines > 0

PhaseOrder ==
    <<"Discovering", "PreconditionCheck", "Initializing", "Running", "Summarizing", "Done">>

\* C9: the phases are entered in the order Discovering, PreconditionCheck,
\* Initializing, Running, Summarizing, Done, none skipped or repeated; the
\* GPU check comes before the engine, the engine is constructed once and
\* warmed up once before any inference on a file, and a file is only in hand
\* when every file before it has been recorded.
C9_PhasesInOrder ==
    /\ Len(phases) <= Len(PhaseOrder)
    /\ phases = SubSeq(PhaseOrder, 1, Len(phases))
    /\ gpuChecks <= 1 /\ engines <= 1 /\ warmups <= 1
    /\ engines = 1 => gpuChecks = 1
    /\ warmups = 1 => engines = 1
    /\ ReachedRunning => (gpuChecks = 1 /\ engines = 1 /\ warmups = 1)
    /\ (i > 0 \/ frameLog # <<>> \/ InFile) =>
          (ReachedRunning /\ engines = 1 /\ warmups = 1)
    /\ InFile => (Len(ProgressLines) = i - 1 /\ phases[Len(phases)] = "Running")
    /\ pc = "loop" => (Len(ProgressLines) = i /\ phases[Len(phases)] = "Running")

\* a run over two files or more went through all six phases
C9_Witness ==
    /\ pc = "done"
    /\ phases = PhaseOrder
    /\ Len(files) >= 2
    /\ Len(ProgressLines) = Len(files)

\* the position of a name in the sorted file list
FileIndex(name) == CHOOSE k \in 1..Len(files) : files[k] = name

Accounting ==
    /\ (pc \in {"loop", "summary"}) => ok + failed = i
    /\ InFile => ok + failed = i - 1
    /\ Len(errors) = failed
    /\ \A a \in 1..Len(errors) : \E k \in 1..i : files[k] = errors[a][1]
    /\ \A a, b \in 1..Len(errors) :
          a < b => FileIndex(errors[a][1]) < FileIndex(errors[b][1])
    /\ pc = "summary" => ok + failed = Len(files)
    /\ SummaryPrinted =>
          /\ ok + failed = Len(files)
          /\ \E k \in 1..Len(out) : out[k].kind = "Processed OK" /\ out[k].idx = ok
          /\ \E k \in 1..Len(out) : out[k].kind = "Failed" /\ out[k].idx = failed

CountersGrow ==
    /\ ok' >= ok
    /\ failed' >= failed
    /\ total_pages' >= total_pages
    /\ total_lines' >= total_lines
    /\ Len(errors') >= Len(errors)

\* C10: after each file ok + failed is the number of files handled, the
\* error list is as long as failed and keeps the processing order, no counter
\* ever decreases, and at the summary ok + failed is the number discovered.
C10_AccountingHolds == [](Accounting) /\ [][CountersGrow]_vars

\* a finished run with two failures and a success
C10_Witness ==
    /\ pc = "done"
    /\ SummaryPrinted
    /\ failed >= 2
    /\ ok >= 1
    /\ total_lines >= 1

====
